---- MODULE Spec2Model ----
(***************************************************************************)
(* Model of the RLS service loop (src/server/mod.rs): LsService::run,      *)
(* handle_message, parse_message, dispatch_message, the typed request and  *)
(* notification construction, and the shutdown / exit / initialize         *)
(* handlers.                                                               *)
(*                                                                         *)
(* A message is modelled by the shape of its text: not JSON at all, a JSON *)
(* value that is not an object, or a JSON object with its "method", "id"   *)
(* and "params" members.  Strings that the code parses (ids) are sequences *)
(* of characters.  The output sink is the sequence of responses written by *)
(* the loop and by the handlers of this file.                              *)
(***************************************************************************)
EXTENDS Integers, Sequences, FiniteSets, TLC

\* Number of messages the message source delivers in one run.
MaxMsgs == 2

(***************************************************************************)
(* JSON shapes of the members of a message.                                *)
(***************************************************************************)
Absent == [t |-> "absent", n |-> 0, s |-> <<>>]

JNull == [t |-> "null", n |-> 0, s |-> <<>>]

JNum(n) == [t |-> "num", n |-> n, s |-> <<>>]

JStr(s) == [t |-> "str", n |-> 0, s |-> s]

JBool == [t |-> "bool", n |-> 0, s |-> <<>>]

JObject == [t |-> "object", n |-> 0, s |-> <<>>]

JArray == [t |-> "array", n |-> 0, s |-> <<>>]

\* A negative number and a number with a fraction.
JNeg == [t |-> "neg", n |-> 0, s |-> <<>>]

JFrac == [t |-> "frac", n |-> 0, s |-> <<>>]

\* The id members a message can carry: none, null, the numbers 1 and 2, the
\* strings "42" and "abc", and a boolean.
IdValues ==
    {Absent, JNull, JNum(1), JNum(2), JStr(<<"4", "2">>), JStr(<<"a", "b", "c">>), JBool}

\* The params members a message can carry; "empty_object" is {}, "object"
\* an object with members.
ParamsValues ==
    {"absent", "null", "empty_object", "object", "array", "string", "number", "bool"}

\* The params that are a JSON object or a JSON array.
Structured == {"empty_object", "object", "array"}

(***************************************************************************)
(* jsonrpc_core::Id and the errors of jsonrpc_core::Error.                 *)
(***************************************************************************)
IdNull == [k |-> "Null", n |-> 0, s |-> <<>>]

IdNum(n) == [k |-> "Num", n |-> n, s |-> <<>>]

IdStr(s) == [k |-> "Str", n |-> 0, s |-> s]

Digits == "0" :> 0 @@ "1" :> 1 @@ "2" :> 2 @@ "3" :> 3 @@ "4" :> 4 @@
          "5" :> 5 @@ "6" :> 6 @@ "7" :> 7 @@ "8" :> 8 @@ "9" :> 9

\* Value of a sequence of decimal digits, -1 when a character is no digit.
RECURSIVE DigitsValue(_, _)
DigitsValue(s, acc) ==
    IF s = <<>> THEN acc
    ELSE IF Head(s) \notin DOMAIN Digits THEN -1
    ELSE DigitsValue(Tail(s), acc * 10 + Digits[Head(s)])

\* str::parse::<u64> / usize::from_str_radix(s, 10): an optional leading
\* "+", then at least one digit; -1 stands for Err.
from_str_radix(s) ==
    LET body == IF s # <<>> /\ Head(s) = "+" THEN Tail(s) ELSE s
    IN  IF body = <<>> THEN -1 ELSE DigitsValue(body, 0)

\* serde_json::from_value::<Id>: null, an unsigned number or a string
\* deserialize (a string of digits as the number); nothing else does.
IdFromValue(v) ==
    CASE v.t = "null" -> [ok |-> TRUE, id |-> IdNull]
      [] v.t = "num"  -> [ok |-> TRUE, id |-> IdNum(v.n)]
      [] v.t = "str"  -> [ok |-> TRUE,
                          id |-> IF from_str_radix(v.s) >= 0
                                 THEN IdNum(from_str_radix(v.s))
                                 ELSE IdStr(v.s)]
      [] OTHER        -> [ok |-> FALSE, id |-> IdNull]

(***************************************************************************)
(* The dispatch table of dispatch_message.  kind names the handler: the    *)
(* three of this file, or "external" for the handlers of the actions       *)
(* module; ptype is the Params type: NoParams or a typed structure.        *)
(***************************************************************************)
Action(m, k, p) == [method |-> m, kind |-> k, ptype |-> p]

\* The METHOD constants of the actions of the actions module.
ActionsMethod ==
    [Initialized |-> "initialized",
     DidOpen |-> "textDocument/didOpen",
     DidChange |-> "textDocument/didChange",
     DidSave |-> "textDocument/didSave",
     DidChangeConfiguration |-> "workspace/didChangeConfiguration",
     DidChangeWatchedFiles |-> "workspace/didChangeWatchedFiles",
     Cancel |-> "$/cancelRequest",
     Definition |-> "textDocument/definition",
     References |-> "textDocument/references",
     Completion |-> "textDocument/completion",
     ResolveCompletion |-> "completionItem/resolve",
     Rename |-> "textDocument/rename",
     DocumentHighlight |-> "textDocument/documentHighlight",
     ExecuteCommand |-> "workspace/executeCommand",
     CodeAction |-> "textDocument/codeAction",
     FindImpls |-> "rustDocument/implementations",
     Deglob |-> "rustWorkspace/deglob",
     Symbols |-> "textDocument/documentSymbol",
     WorkspaceSymbol |-> "workspace/symbol",
     Formatting |-> "textDocument/formatting",
     RangeFormatting |-> "textDocument/rangeFormatting",
     Hover |-> "textDocument/hover"]

\* The exit notification with a typed Params structure.
ExitNotification_Typed == Action("exit", "exit", "typed")

ExitNotification == Action("exit", "exit", "NoParams")

ShutdownRequest == Action("shutdown", "shutdown", "NoParams")

InitializeRequest == Action("initialize", "initialize", "typed")

\* The table with the shutdown method registered a second time, as a
\* notification.
NotificationActions_Duplicate ==
    << ExitNotification,
       Action(ShutdownRequest.method, "external", "NoParams"),
       Action(ActionsMethod.Initialized, "external", "NoParams"),
       Action(ActionsMethod.DidOpen, "external", "typed"),
       Action(ActionsMethod.DidChange, "external", "typed"),
       Action(ActionsMethod.DidSave, "external", "typed"),
       Action(ActionsMethod.DidChangeConfiguration, "external", "typed"),
       Action(ActionsMethod.DidChangeWatchedFiles, "external", "typed"),
       Action(ActionsMethod.Cancel, "external", "typed") >>

NotificationActions ==
    << ExitNotification,
       Action(ActionsMethod.Initialized, "external", "NoParams"),
       Action(ActionsMethod.DidOpen, "external", "typed"),
       Action(ActionsMethod.DidChange, "external", "typed"),
       Action(ActionsMethod.DidSave, "external", "typed"),
       Action(ActionsMethod.DidChangeConfiguration, "external", "typed"),
       Action(ActionsMethod.DidChangeWatchedFiles, "external", "typed"),
       Action(ActionsMethod.Cancel, "external", "typed") >>

RequestActions ==
    << ShutdownRequest,
       InitializeRequest,
       Action(ActionsMethod.Definition, "external", "typed"),
       Action(ActionsMethod.References, "external", "typed"),
       Action(ActionsMethod.Completion, "external", "typed"),
       Action(ActionsMethod.ResolveCompletion, "external", "typed"),
       Action(ActionsMethod.Rename, "external", "typed"),
       Action(ActionsMethod.DocumentHighlight, "external", "typed"),
       Action(ActionsMethod.ExecuteCommand, "external", "typed"),
       Action(ActionsMethod.CodeAction, "external", "typed"),
       Action(ActionsMethod.FindImpls, "external", "typed"),
       Action(ActionsMethod.Deglob, "external", "typed"),
       Action(ActionsMethod.Symbols, "external", "typed"),
       Action(ActionsMethod.WorkspaceSymbol, "external", "typed"),
       Action(ActionsMethod.Formatting, "external", "typed"),
       Action(ActionsMethod.RangeFormatting, "external", "typed"),
       Action(ActionsMethod.Hover, "external", "typed") >>

NotificationMethods == {NotificationActions[i].method : i \in DOMAIN NotificationActions}

RequestMethods == {RequestActions[i].method : i \in DOMAIN RequestActions}

(***************************************************************************)
(* The messages of the model.  method is "absent", "nonstring" (a method   *)
(* member that is no JSON string) or a method name.                        *)
(***************************************************************************)
MethodValues ==
    {"absent", "nonstring", "exit", "shutdown", "initialize", "initialized",
     "textDocument/didOpen", "textDocument/hover", "unknown/method"}

Msg(x, m, i, p) == [text |-> x, method |-> m, id |-> i, params |-> p]

\* The text "not json".
NotJson == Msg("garbage", "absent", Absent, "absent")

\* A JSON value that is no object (an array, a string, a number): it has
\* no members.
NonObject == Msg("value", "absent", Absent, "absent")

Msgs ==
    {NotJson, NonObject} \cup
    {Msg("object", m, i, p) : m \in MethodValues, i \in IdValues, p \in ParamsValues}

(***************************************************************************)
(* What the code outside this file decides for one message: whether the    *)
(* params deserialize into a typed Params structure, whether an external   *)
(* handler returns Ok, and what the InitializeParams name as the root.     *)
(***************************************************************************)
Roots == [uri : {"none", "file", "other"}, path : {"none", "some"}]

NoRoot == [uri |-> "none", path |-> "none"]

Env(f, h, r) == [fits |-> f, hok |-> h, root |-> r]

DefaultEnv == Env(FALSE, TRUE, NoRoot)

\* The table entries that carry the method.
Matching(method) ==
    {NotificationActions[i] : i \in {j \in DOMAIN NotificationActions :
                                        NotificationActions[j].method = method}}
    \cup
    {RequestActions[i] : i \in {j \in DOMAIN RequestActions :
                                   RequestActions[j].method = method}}

\* The environments that make a difference for message m.
EnvFor(m) ==
    LET as     == Matching(m.method)
        typed  == \E a \in as : a.ptype = "typed"
        ext    == \E a \in as : a.kind = "external"
        init   == \E a \in as : a.kind = "initialize"
        canfit == typed /\ m.params \in Structured
    IN  {e \in {Env(f, h, r) : f \in BOOLEAN, h \in BOOLEAN, r \in Roots} :
            /\ (~canfit => e.fits = FALSE)
            /\ (~(ext /\ (canfit => e.fits)) => e.hok = TRUE)
            /\ (~(init /\ e.fits /\ m.params # "empty_object") => e.root = NoRoot)}

(***************************************************************************)
(* The output sink: the responses written through Output::success and      *)
(* Output::failure.                                                        *)
(***************************************************************************)
\* The capabilities of the InitializeResult: the providers that are
\* advertised, the one that is advertised as false, the ones that are None.
ServerCapabilities ==
    {<<"text_document_sync", "Incremental">>,
     <<"hover_provider", "true">>,
     <<"completion_provider", "resolve_provider">>,
     <<"definition_provider", "true">>,
     <<"references_provider", "true">>,
     <<"document_highlight_provider", "true">>,
     <<"document_symbol_provider", "true">>,
     <<"workspace_symbol_provider", "true">>,
     <<"code_action_provider", "true">>,
     <<"document_formatting_provider", "true">>,
     <<"execute_command_provider", "rls.applySuggestion">>,
     <<"rename_provider", "true">>,
     <<"document_range_formatting_provider", "false">>,
     <<"code_lens_provider", "None">>,
     <<"document_on_type_formatting_provider", "None">>,
     <<"signature_help_provider", "None">>}

\* The JSON a response serializes to: the unit struct Ack is null, the
\* InitializeResult an object with the capabilities; the responses of the
\* actions module are some JSON value.
ResultJson(r) ==
    CASE r = "Ack"              -> [shape |-> "null", capabilities |-> {}]
      [] r = "InitializeResult" -> [shape |-> "object", capabilities |-> ServerCapabilities]
      [] r = "none"             -> [shape |-> "none", capabilities |-> {}]
      [] OTHER                  -> [shape |-> "value", capabilities |-> {}]

Success(n, r) ==
    [kind |-> "success", id |-> IdNum(n), err |-> "none", result |-> ResultJson(r)]

Failure(id, e) ==
    [kind |-> "failure", id |-> id, err |-> e, result |-> ResultJson("none")]

(***************************************************************************)
(* parse_message.  tag is "Some" (an envelope), "None", "Err" or "Panic"   *)
(* (the unwrap of the id's deserialization).                               *)
(***************************************************************************)
RawMessage(m, i, p) == [method |-> m, id |-> i, params |-> p]

NoId == [some |-> FALSE, id |-> IdNull]

SomeId(i) == [some |-> TRUE, id |-> i]

NoRaw == RawMessage("", NoId, "null")

Parsed(t, e, rm) == [tag |-> t, err |-> e, raw |-> rm]

\* parse_message reporting text that is not JSON as an invalid request.
parse_message_WrongError(m) ==
    IF m.text = "garbage" THEN Parsed("Err", "InvalidRequest", NoRaw)
    ELSE IF m.id # Absent /\ ~IdFromValue(m.id).ok THEN Parsed("Panic", "none", NoRaw)
    ELSE IF m.method = "absent" THEN Parsed("None", "none", NoRaw)
    ELSE IF m.method = "nonstring" THEN Parsed("Err", "InvalidRequest", NoRaw)
    ELSE IF m.params \in {"string", "number", "bool"}
         THEN Parsed("Err", "InvalidRequest", NoRaw)
    ELSE Parsed("Some", "none",
                RawMessage(m.method,
                           IF m.id = Absent THEN NoId ELSE SomeId(IdFromValue(m.id).id),
                           IF m.params \in Structured THEN m.params ELSE "null"))

parse_message(m) ==
    IF m.text = "garbage" THEN Parsed("Err", "ParseError", NoRaw)
    ELSE IF m.id # Absent /\ ~IdFromValue(m.id).ok THEN Parsed("Panic", "none", NoRaw)
    ELSE IF m.method = "absent" THEN Parsed("None", "none", NoRaw)
    ELSE IF m.method = "nonstring" THEN Parsed("Err", "InvalidRequest", NoRaw)
    ELSE IF m.params \in {"string", "number", "bool"}
         THEN Parsed("Err", "InvalidRequest", NoRaw)
    ELSE Parsed("Some", "none",
                RawMessage(m.method,
                           IF m.id = Absent THEN NoId ELSE SomeId(IdFromValue(m.id).id),
                           IF m.params \in Structured THEN m.params ELSE "null"))

(***************************************************************************)
(* Typed construction: parse_as_request and parse_as_notification.         *)
(***************************************************************************)
\* NoParams::deserialize taking only null and the empty object.
Deserialize_Strict(ptype, params, env) ==
    \/ ptype = "NoParams" /\ params \in {"null", "empty_object"}
    \/ params \in Structured /\ env.fits

\* T::Params::deserialize(&self.params): NoParams takes every value; a
\* typed structure takes an object or an array whose content fits.
Deserialize(ptype, params, env) ==
    \/ ptype = "NoParams"
    \/ params \in Structured /\ env.fits

\* parsed_numeric_id of parse_as_request, -1 standing for None.
parsed_numeric_id(id) ==
    IF ~id.some THEN -1
    ELSE IF id.id.k = "Num" THEN id.id.n
    ELSE IF id.id.k = "Str" THEN from_str_radix(id.id.s)
    ELSE -1

parse_as_request(a, rm, env) ==
    IF ~Deserialize(a.ptype, rm.params, env)
    THEN [ok |-> FALSE, err |-> "InvalidRequest", id |-> 0]
    ELSE IF parsed_numeric_id(rm.id) >= 0
    THEN [ok |-> TRUE, err |-> "none", id |-> parsed_numeric_id(rm.id)]
    ELSE [ok |-> FALSE, err |-> "InvalidRequest", id |-> 0]

parse_as_notification(a, rm, env) ==
    IF ~Deserialize(a.ptype, rm.params, env)
    THEN [ok |-> FALSE, err |-> "InvalidRequest"]
    ELSE [ok |-> TRUE, err |-> "none"]

(***************************************************************************)
(* The state one message is handled in and leaves behind.  status is "run" *)
(* while the handling goes on, "err" after a dispatch error, "exit" after  *)
(* process::exit and "panic" after a panic.                                *)
(***************************************************************************)
St0(flag) ==
    [status |-> "run", handled |-> FALSE, err |-> "none", out |-> <<>>,
     flag |-> flag, stores |-> 0, invoked |-> <<>>, code |-> -1]

Invoke(st, a) == [st EXCEPT !.invoked = Append(@, a.method)]

(***************************************************************************)
(* The handlers.  res is "Ok", "Err", "Exit" or "Panic"; resp is the       *)
(* Response of a request handler that returned Ok.                         *)
(***************************************************************************)
Handled(st, res, resp) == [st |-> st, res |-> res, resp |-> resp]

\* The shutdown handler acknowledging without the store.
ShutdownHandle_NoStore(st) == Handled(st, "Ok", "Ack")

ShutdownHandle(st) ==
    Handled([st EXCEPT !.flag = TRUE, !.stores = @ + 1], "Ok", "Ack")

\* The exit handler ignoring the lifecycle flag.
ExitHandle_AlwaysOne(st) ==
    Handled([st EXCEPT !.status = "exit", !.code = 1], "Exit", "none")

ExitHandle(st) ==
    Handled([st EXCEPT !.status = "exit", !.code = IF st.flag THEN 0 ELSE 1],
            "Exit", "none")

\* The path get_root_path returns, "panic" for its assert and its expects.
get_root_path(root) ==
    IF root.uri = "file" THEN "uri"
    ELSE IF root.uri = "other" THEN "panic"
    ELSE IF root.path = "some" THEN "path"
    ELSE "panic"

\* The initialize handler leaving the response to Response::send.
InitializeHandle_Silent(id, env, st) ==
    IF get_root_path(env.root) = "panic"
    THEN Handled([st EXCEPT !.status = "panic"], "Panic", "none")
    ELSE Handled(st, "Ok", "NoResponse")

InitializeHandle(id, env, st) ==
    LET sent == [st EXCEPT !.out = Append(@, Success(id, "InitializeResult"))]
    IN  IF get_root_path(env.root) = "panic"
        THEN Handled([sent EXCEPT !.status = "panic"], "Panic", "none")
        ELSE Handled(sent, "Ok", "NoResponse")

\* A handler of the actions module: it returns Ok or Err.
ExternalHandle(env, st) ==
    Handled(st, IF env.hok THEN "Ok" ELSE "Err", "External")

\* Response::send without the empty implementation for NoResponse.
ResponseSend_Always(resp, id, out) == Append(out, Success(id, resp))

\* Response::send: NoResponse writes nothing, every other response is
\* written as the success response of the request.
ResponseSend(resp, id, out) ==
    IF resp = "NoResponse" THEN out ELSE Append(out, Success(id, resp))

\* Request::dispatch sending the response without the `?` on the handler's
\* result.
RequestDispatch_SendAnyway(a, id, env, st) ==
    LET h == CASE a.kind = "shutdown"   -> ShutdownHandle(Invoke(st, a))
               [] a.kind = "initialize" -> InitializeHandle(id, env, Invoke(st, a))
               [] OTHER                 -> ExternalHandle(env, Invoke(st, a))
    IN  IF h.res \in {"Ok", "Err"}
        THEN [h EXCEPT !.st.out = ResponseSend(h.resp, id, h.st.out)]
        ELSE h

RequestDispatch(a, id, env, st) ==
    LET h == CASE a.kind = "shutdown"   -> ShutdownHandle(Invoke(st, a))
               [] a.kind = "initialize" -> InitializeHandle(id, env, Invoke(st, a))
               [] OTHER                 -> ExternalHandle(env, Invoke(st, a))
    IN  IF h.res = "Ok"
        THEN [h EXCEPT !.st.out = ResponseSend(h.resp, id, h.st.out)]
        ELSE h

\* Notification::dispatch acknowledging a handled notification.
NotificationDispatch_Acks(a, env, st) ==
    LET h == IF a.kind = "exit" THEN ExitHandle(Invoke(st, a))
             ELSE ExternalHandle(env, Invoke(st, a))
    IN  IF h.res = "Ok" THEN [h EXCEPT !.st.out = Append(@, Success(0, "Ack"))] ELSE h

NotificationDispatch(a, env, st) ==
    IF a.kind = "exit" THEN ExitHandle(Invoke(st, a))
    ELSE ExternalHandle(env, Invoke(st, a))

(***************************************************************************)
(* dispatch_message: the arms of match_action!, the notifications first,   *)
(* then the requests, each an `if` of its own.                             *)
(***************************************************************************)
NotificationArm(a, rm, env, st) ==
    IF rm.method # a.method THEN st
    ELSE LET n == parse_as_notification(a, rm, env)
         IN  IF ~n.ok THEN [st EXCEPT !.status = "err", !.err = n.err]
             ELSE [NotificationDispatch(a, env, st).st EXCEPT !.handled = TRUE]

RequestArm(a, rm, env, st) ==
    IF rm.method # a.method THEN st
    ELSE LET r == parse_as_request(a, rm, env)
         IN  IF ~r.ok THEN [st EXCEPT !.status = "err", !.err = r.err]
             ELSE [RequestDispatch(a, r.id, env, st).st EXCEPT !.handled = TRUE]

\* The notification arms of the list ns, from the i-th on.
RECURSIVE NotificationArmsIn(_, _, _, _, _)
NotificationArmsIn(ns, i, rm, env, st) ==
    IF i > Len(ns) \/ st.status # "run" THEN st
    ELSE NotificationArmsIn(ns, i + 1, rm, env, NotificationArm(ns[i], rm, env, st))

\* The request arms of the list rs, from the i-th on.
RECURSIVE RequestArmsIn(_, _, _, _, _)
RequestArmsIn(rs, i, rm, env, st) ==
    IF i > Len(rs) \/ st.status # "run" THEN st
    ELSE RequestArmsIn(rs, i + 1, rm, env, RequestArm(rs[i], rm, env, st))

NotificationArms(i, rm, env, st) == NotificationArmsIn(NotificationActions, i, rm, env, st)

RequestArms(i, rm, env, st) == RequestArmsIn(RequestActions, i, rm, env, st)

\* dispatch_message answering a method that no arm handled with an error.
dispatch_message_MethodNotFound(rm, env, st) ==
    LET d == RequestArms(1, rm, env, NotificationArms(1, rm, env, st))
    IN  IF d.status = "run" /\ ~d.handled
        THEN [d EXCEPT !.status = "err", !.err = "MethodNotFound"]
        ELSE d

dispatch_message(rm, env, st) ==
    RequestArms(1, rm, env, NotificationArms(1, rm, env, st))

(***************************************************************************)
(* handle_message for a message the source delivered, and for a read that  *)
(* failed.  result is "Continue", "Break", "Exit" or "Panic".              *)
(***************************************************************************)
Outcome(result, parsed, st) == [result |-> result, parsed |-> parsed, st |-> st]

\* The failure of the dispatch stage keyed to the null id.
FailureId_Null(rm) == IdNull

\* raw_message.id.unwrap_or(Id::Null)
FailureId(rm) == IF rm.id.some THEN rm.id.id ELSE IdNull

\* The gate with the comparison of the method inverted.
ShutdownGate_Inverted(flag, rm) == flag /\ rm.method = ExitNotification.method

\* No gate at all.
ShutdownGate_Off(flag, rm) == FALSE

\* The gate of the shutdown mode.
ShutdownGate(flag, rm) == flag /\ rm.method # ExitNotification.method

handle_message(flag, m, env) ==
    LET p  == parse_message(m)
        s0 == St0(flag)
    IN  CASE p.tag = "Panic" -> Outcome("Panic", p, [s0 EXCEPT !.status = "panic"])
          [] p.tag = "None"  -> Outcome("Continue", p, s0)
          [] p.tag = "Err"   ->
               Outcome("Break", p,
                       [s0 EXCEPT !.out = Append(@, Failure(IdNull, "ParseError"))])
          [] OTHER ->
               IF ShutdownGate(flag, p.raw) THEN Outcome("Continue", p, s0)
               ELSE LET d == dispatch_message(p.raw, env, s0)
                    IN  CASE d.status = "err" ->
                               Outcome("Break", p,
                                       [d EXCEPT !.out = Append(@,
                                           Failure(FailureId(p.raw), d.err))])
                          [] d.status = "exit"  -> Outcome("Exit", p, d)
                          [] d.status = "panic" -> Outcome("Panic", p, d)
                          [] OTHER              -> Outcome("Continue", p, d)

\* A failed read that lets the loop go on.
handle_read_failure_Retry(flag) ==
    Outcome("Continue", Parsed("NoRead", "none", NoRaw), St0(flag))

\* A failed read that stops the loop without reporting.
handle_read_failure_Silent(flag) ==
    Outcome("Break", Parsed("NoRead", "none", NoRaw), St0(flag))

handle_read_failure(flag) ==
    Outcome("Break", Parsed("NoRead", "none", NoRaw),
            [St0(flag) EXCEPT !.out = Append(@, Failure(IdNull, "ParseError"))])

(***************************************************************************)
(* The service.  pc is the position of LsService::run: "Running" while the *)
(* loop goes on, "Stopped" after a Break, "Exited" after process::exit,    *)
(* "Panicked" after a panic.  last records the latest iteration of the     *)
(* loop, invoked the handlers run so far, flag_writes the stores to        *)
(* shut_down.                                                              *)
(***************************************************************************)
VARIABLES shut_down, output, pc, exit_code, nread, invoked, flag_writes, last, probe

vars == <<shut_down, output, pc, exit_code, nread, invoked, flag_writes, last, probe>>

NoLast ==
    [read |-> "none", msg |-> NonObject, env |-> DefaultEnv, before |-> FALSE,
     result |-> "none", parsed |-> Parsed("NoRead", "none", NoRaw),
     out |-> <<>>, invoked |-> <<>>, err |-> "none"]

\* The service as LsService::new leaves it.
InitService ==
    /\ shut_down = FALSE
    /\ output = <<>>
    /\ pc = "Running"
    /\ exit_code = -1
    /\ nread = 0
    /\ invoked = <<>>
    /\ flag_writes = 0
    /\ last = NoLast

\* probe holds the input and the result of a construction that is applied
\* on its own, outside the loop (see SpecId).
NoRequest == [ok |-> FALSE, err |-> "none", id |-> 0]

NoProbe ==
    [done |-> FALSE, id |-> Absent, parsed |-> Parsed("NoRead", "none", NoRaw),
     req |-> NoRequest]

Init == InitService /\ probe = NoProbe

\* The loop of run going on after a Break.
PcAfter_NeverStops(result) ==
    CASE result \in {"Continue", "Break"} -> "Running"
      [] result = "Exit"                  -> "Exited"
      [] OTHER                            -> "Panicked"

PcAfter(result) ==
    CASE result = "Continue" -> "Running"
      [] result = "Break"    -> "Stopped"
      [] result = "Exit"     -> "Exited"
      [] OTHER               -> "Panicked"

\* An iteration whose responses overtake the ones written before it.
Iterate_Overtaking(read, m, env, o) ==
    /\ shut_down' = o.st.flag
    /\ output' = o.st.out \o output
    /\ pc' = PcAfter(o.result)
    /\ exit_code' = o.st.code
    /\ nread' = nread + 1
    /\ invoked' = invoked \o o.st.invoked
    /\ flag_writes' = flag_writes + o.st.stores
    /\ probe' = probe
    /\ last' = [read |-> read, msg |-> m, env |-> env, before |-> shut_down,
                result |-> o.result, parsed |-> o.parsed, out |-> o.st.out,
                invoked |-> o.st.invoked, err |-> o.st.err]

\* One iteration of the loop of run, with outcome o.
Iterate(read, m, env, o) ==
    /\ shut_down' = o.st.flag
    /\ output' = output \o o.st.out
    /\ pc' = PcAfter(o.result)
    /\ exit_code' = o.st.code
    /\ nread' = nread + 1
    /\ invoked' = invoked \o o.st.invoked
    /\ flag_writes' = flag_writes + o.st.stores
    /\ probe' = probe
    /\ last' = [read |-> read, msg |-> m, env |-> env, before |-> shut_down,
                result |-> o.result, parsed |-> o.parsed, out |-> o.st.out,
                invoked |-> o.st.invoked, err |-> o.st.err]

\* A loop that drops an initialize request once one has been handled.
HandleMessage_InitializeOnce ==
    /\ pc = "Running"
    /\ nread < MaxMsgs
    /\ \E m \in Msgs : \E env \in EnvFor(m) :
          Iterate("msg", m, env,
                  IF /\ m.method = InitializeRequest.method
                     /\ \E i \in DOMAIN invoked : invoked[i] = InitializeRequest.method
                  THEN Outcome("Continue", parse_message(m), St0(shut_down))
                  ELSE handle_message(shut_down, m, env))

\* The source delivers message m.
HandleMessage ==
    /\ pc = "Running"
    /\ nread < MaxMsgs
    /\ \E m \in Msgs : \E env \in EnvFor(m) :
          Iterate("msg", m, env, handle_message(shut_down, m, env))

\* The source fails to deliver a message.
HandleReadFailure ==
    /\ pc = "Running"
    /\ nread < MaxMsgs
    /\ Iterate("fail", NonObject, DefaultEnv, handle_read_failure(shut_down))

Next == HandleMessage \/ HandleReadFailure

Spec == Init /\ [][Next]_vars

(***************************************************************************)
(* The construction of a request on its own: a shutdown request (NoParams) *)
(* with an id member drawn from the JSON values below goes through         *)
(* parse_message and, when that gives an envelope, parse_as_request.       *)
(***************************************************************************)
\* Longest id string tried.
MaxIdLen == 3

IdChars == {"4", "2", "a", "+", "-"}

IdStrings == UNION {[1..n -> IdChars] : n \in 0..MaxIdLen}

ProbeIds ==
    {Absent, JNull, JNum(0), JNum(42), JBool, JObject, JArray, JNeg, JFrac}
    \cup {JStr(s) : s \in IdStrings}

InitId == InitService /\ probe \in {[NoProbe EXCEPT !.id = v] : v \in ProbeIds}

ConstructRequest ==
    /\ ~probe.done
    /\ LET p == parse_message(Msg("object", ShutdownRequest.method, probe.id, "absent"))
       IN  probe' = [probe EXCEPT
                        !.done = TRUE,
                        !.parsed = p,
                        !.req = IF p.tag = "Some"
                                THEN parse_as_request(ShutdownRequest, p.raw, DefaultEnv)
                                ELSE NoRequest]
    /\ UNCHANGED <<shut_down, output, pc, exit_code, nread, invoked, flag_writes, last>>

NextId == ConstructRequest

SpecId == InitId /\ [][NextId]_vars

(***************************************************************************)
(* The construction of a notification on its own: parse_as_notification    *)
(* for an action of the notification table, applied to a RawMessage whose  *)
(* method, id and params are drawn from the values below.  The method need *)
(* not be the one of the action, and params is any JSON value, as for a    *)
(* RawMessage that is built directly.                                      *)
(***************************************************************************)
ProbeMethods ==
    {ExitNotification.method, ActionsMethod.Initialized, ActionsMethod.DidOpen,
     InitializeRequest.method, "unknown/method"}

ProbeRawIds ==
    {NoId, SomeId(IdNull), SomeId(IdNum(1)), SomeId(IdStr(<<"a", "b", "c">>))}

ProbeRaws ==
    {RawMessage(m, i, p) :
        m \in ProbeMethods, i \in ProbeRawIds, p \in ParamsValues \ {"absent"}}

NoNotification == [ok |-> FALSE, err |-> "none"]

NotificationProbe(a, rm, env) ==
    [done |-> FALSE, action |-> a, raw |-> rm, env |-> env, res |-> NoNotification]

InitNotification ==
    /\ InitService
    /\ probe \in {NotificationProbe(NotificationActions[i], rm, Env(f, TRUE, NoRoot)) :
                     i \in DOMAIN NotificationActions, rm \in ProbeRaws, f \in BOOLEAN}

ConstructNotification ==
    /\ ~probe.done
    /\ probe' = [probe EXCEPT
                    !.done = TRUE,
                    !.res = parse_as_notification(probe.action, probe.raw, probe.env)]
    /\ UNCHANGED <<shut_down, output, pc, exit_code, nread, invoked, flag_writes, last>>

NextNotification == ConstructNotification

SpecNotification == InitNotification /\ [][NextNotification]_vars

(***************************************************************************)
(* Properties of the latest iteration of the loop.                         *)
(***************************************************************************)
Count(seq, x) == Cardinality({i \in DOMAIN seq : seq[i] = x})

Range(seq) == {seq[i] : i \in DOMAIN seq}

\* The latest iteration handled a delivered message that parse_message
\* turned into an envelope.
LastEnvelope == last.read = "msg" /\ last.parsed.tag = "Some"

\* The latest iteration had no effect but to continue the loop.
LastDropped ==
    /\ last.result = "Continue"
    /\ last.out = <<>>
    /\ last.invoked = <<>>
    /\ shut_down = last.before

\* C1 as stated: while the lifecycle flag is true, every message whose
\* method is a string other than "exit" is dropped: no dispatch, no
\* response, and handle_message returns Continue.
C1_AsStated ==
    (/\ last.read = "msg"
     /\ last.before
     /\ last.msg.text = "object"
     /\ last.msg.method \notin {"absent", "nonstring", "exit"})
    => LastDropped

\* C1 as amended: while the lifecycle flag is true, every message that
\* parse_message turns into an envelope whose method is not "exit" is
\* dropped: no dispatch, no response, the flag stays true and
\* handle_message returns Continue, whatever the envelope's id and params.
C1_GateDropsEnvelopes ==
    (LastEnvelope /\ last.before /\ last.parsed.raw.method # "exit")
    => (LastDropped /\ shut_down)

C1_Witness ==
    /\ LastEnvelope
    /\ last.before
    /\ last.msg.method = "initialize"
    /\ last.msg.id = JNum(1)
    /\ last.msg.params = "object"
    /\ last.result = "Continue"

\* C2: once the shutdown handler has run the lifecycle flag is true; an
\* exit envelope ends the process, with code 0 when the shutdown handler
\* ran before it in this run and with code 1 when it did not.
C2_ExitCode ==
    /\ "shutdown" \in Range(invoked) => shut_down
    /\ (LastEnvelope /\ last.parsed.raw.method = "exit") => pc = "Exited"
    /\ pc = "Exited" => exit_code = (IF "shutdown" \in Range(invoked) THEN 0 ELSE 1)
    /\ pc # "Exited" => exit_code = -1

C2_Witness ==
    /\ pc = "Exited"
    /\ exit_code = 0
    /\ invoked = <<"shutdown", "exit">>

\* C3: the lifecycle flag is false until its first store and true after
\* it; there is at most one store in a run, and the stores are exactly
\* the runs of the shutdown handler, which therefore runs at most once.
C3_FlagWrittenOnce ==
    /\ flag_writes <= 1
    /\ shut_down = (flag_writes = 1)
    /\ Count(invoked, "shutdown") = flag_writes
    /\ shut_down # last.before => last.invoked = <<"shutdown">>

C3_Witness ==
    /\ flag_writes = 1
    /\ last.before
    /\ last.msg.method = "shutdown"
    /\ last.msg.id = JNum(1)
    /\ LastEnvelope

\* C4 as stated: when parse_message fails with InvalidRequest, handle_message
\* sends exactly one failure response carrying InvalidRequest, keyed to the
\* null id, and returns Break.
C4_AsStated ==
    (last.read = "msg" /\ last.parsed.tag = "Err" /\ last.parsed.err = "InvalidRequest")
    => (/\ last.out = <<Failure(IdNull, "InvalidRequest")>>
        /\ last.result = "Break")

\* C5: a message that is not JSON makes parse_message fail with ParseError;
\* handle_message writes exactly one failure response, ParseError keyed to
\* the null id, runs no handler and returns Break.
C5_NotJson ==
    (last.read = "msg" /\ last.msg.text = "garbage")
    => (/\ last.parsed.tag = "Err"
        /\ last.parsed.err = "ParseError"
        /\ last.out = <<Failure(IdNull, "ParseError")>>
        /\ last.invoked = <<>>
        /\ last.result = "Break"
        /\ pc = "Stopped")

C5_Witness ==
    /\ last.read = "msg"
    /\ last.msg = NotJson
    /\ pc = "Stopped"
    /\ Len(output) = 1

\* C6: when the message source delivers no message, handle_message writes
\* one failure response, ParseError keyed to the null id, returns Break,
\* runs no handler and leaves the lifecycle flag as it was.
C6_ReadFailure ==
    last.read = "fail"
    => (/\ last.out = <<Failure(IdNull, "ParseError")>>
        /\ last.result = "Break"
        /\ pc = "Stopped"
        /\ last.invoked = <<>>
        /\ shut_down = last.before)

C6_Witness ==
    /\ last.read = "fail"
    /\ last.before
    /\ shut_down
    /\ pc = "Stopped"

\* C7 as stated: for every JSON value without a method member, whatever its
\* id and params, parse_message yields no envelope and no error, and
\* handle_message returns Continue with no dispatch, no output and the
\* lifecycle flag unchanged.
C7_AsStated ==
    (last.read = "msg" /\ last.msg.text # "garbage" /\ last.msg.method = "absent")
    => (last.parsed.tag = "None" /\ LastDropped)

\* The envelope of the latest iteration carries no id that gives a number.
C8_NoNumericId ==
    \/ last.msg.id.t \in {"absent", "null"}
    \/ last.msg.id = JStr(<<"a", "b", "c">>)

\* The params of the latest iteration do not deserialize into a typed
\* Params structure.
C8_ParamsUnfit == ~(last.msg.params \in Structured /\ last.env.fits)

\* The failure of the dispatch stage: InvalidRequest keyed to the envelope's
\* id, no handler run, Break.
C8_DispatchFailure ==
    /\ last.err = "InvalidRequest"
    /\ last.invoked = <<>>
    /\ last.out = <<Failure(IF last.msg.id = Absent THEN IdNull
                            ELSE last.parsed.raw.id.id, "InvalidRequest")>>
    /\ last.msg.id = JStr(<<"a", "b", "c">>) => last.out[1].id = IdStr(<<"a", "b", "c">>)
    /\ last.msg.id.t = "num" => last.out[1].id = IdNum(last.msg.id.n)
    /\ last.result = "Break"
    /\ shut_down = last.before

\* C8: every error of the dispatch stage (a request without an id that gives
\* a number, params that do not deserialize into the Params of the matched
\* handler) is InvalidRequest: the handler is not run, one failure response
\* is written keyed to the envelope's id, or to null when it has none, and
\* handle_message returns Break.
C8_DispatchErrors ==
    LET reached == LastEnvelope /\ ~(last.before /\ last.msg.method # "exit")
        m       == last.msg.method
    IN  /\ (reached /\ m \in {"shutdown", "initialize", "textDocument/hover"}
                    /\ C8_NoNumericId) => C8_DispatchFailure
        /\ (reached /\ m \in {"initialize", "textDocument/hover", "textDocument/didOpen"}
                    /\ C8_ParamsUnfit) => C8_DispatchFailure
        /\ (LastEnvelope /\ last.result = "Break") => C8_DispatchFailure

C8_Witness ==
    /\ LastEnvelope
    /\ last.msg.method = "textDocument/didOpen"
    /\ last.msg.id = JNum(1)
    /\ last.msg.params = "null"
    /\ last.result = "Break"
    /\ output = <<Failure(IdNum(1), "InvalidRequest")>>

\* C9: a request whose handler returns Ok has exactly one success response
\* written, tagged with the numeric id of the request; so for shutdown,
\* for initialize and for the requests of the actions module.
C9_OneSuccessResponse ==
    (/\ LastEnvelope
     /\ last.result = "Continue"
     /\ last.invoked # <<>>
     /\ last.invoked[1] \in RequestMethods
     /\ last.invoked[1] \notin {"shutdown", "initialize"} => last.env.hok)
    => (/\ Len(last.out) = 1
        /\ last.out[1].kind = "success"
        /\ last.out[1].id.k = "Num"
        /\ last.msg.id.t = "num" => last.out[1].id.n = last.msg.id.n
        /\ last.msg.id = JStr(<<"4", "2">>) => last.out[1].id.n = 42
        /\ last.msg.id.t \in {"num", "str"})

C9_Witness ==
    /\ LastEnvelope
    /\ last.invoked = <<"initialize">>
    /\ last.msg.id = JStr(<<"4", "2">>)
    /\ last.result = "Continue"
    /\ output = <<Success(42, "InitializeResult")>>

\* C10: when the handler of the actions module that a message is dispatched
\* to returns Err, no response is written for the message, dispatch_message
\* returns Ok and handle_message returns Continue.
C10_HandlerError ==
    (/\ LastEnvelope
     /\ last.invoked # <<>>
     /\ last.invoked[1] \notin {"exit", "shutdown", "initialize"}
     /\ ~last.env.hok)
    => (/\ last.out = <<>>
        /\ last.err = "none"
        /\ last.result = "Continue"
        /\ pc = "Running")

C10_Witness ==
    /\ LastEnvelope
    /\ last.invoked = <<"textDocument/hover">>
    /\ ~last.env.hok
    /\ last.result = "Continue"

\* C11: an envelope whose method is in neither list of the dispatch table,
\* arriving while the lifecycle flag is false, runs no handler, writes
\* nothing, leaves the flag false and makes handle_message return Continue,
\* with or without an id in the envelope.
C11_UnknownMethod ==
    (/\ LastEnvelope
     /\ ~last.before
     /\ last.msg.method \notin (NotificationMethods \cup RequestMethods))
    => (/\ LastDropped
        /\ ~shut_down
        /\ last.err = "none"
        /\ pc = "Running")

C11_Witness ==
    /\ LastEnvelope
    /\ ~last.before
    /\ last.msg.method = "unknown/method"
    /\ last.msg.id = JNum(1)
    /\ last.msg.params = "object"
    /\ last.result = "Continue"
    /\ output = <<>>

\* C12 as stated: for an envelope whose method is a notification of the
\* dispatch table no response is ever written.
C12_AsStated ==
    (LastEnvelope /\ last.msg.method \in NotificationMethods) => last.out = <<>>

\* The params of the latest message deserialize into the Params of the
\* notification it names: NoParams for exit and initialized, a typed
\* structure for the others.
C12_ParamsFit ==
    \/ last.msg.method \in {"exit", "initialized"}
    \/ last.msg.params \in Structured /\ last.env.fits

\* C12 as amended: for an envelope whose method is a notification of the
\* dispatch table and whose params deserialize into the handler's Params, no
\* response is written, whether the handler returns Ok or Err and with or
\* without an id in the envelope; when the params do not deserialize, the
\* handler is not run, one InvalidRequest failure response is written,
\* keyed to the envelope's id or to null, and handle_message returns Break.
C12_NotificationResponses ==
    LET isNotification == LastEnvelope /\ last.msg.method \in NotificationMethods
        gated          == last.before /\ last.msg.method # "exit"
    IN  /\ (isNotification /\ C12_ParamsFit)
             => (last.out = <<>> /\ last.result \in {"Continue", "Exit"})
        /\ (isNotification /\ ~gated /\ C12_ParamsFit)
             => last.invoked = <<last.msg.method>>
        /\ (isNotification /\ ~gated /\ ~C12_ParamsFit)
             => (/\ last.invoked = <<>>
                 /\ last.out = <<Failure(IF last.msg.id = Absent THEN IdNull
                                         ELSE last.parsed.raw.id.id, "InvalidRequest")>>
                 /\ last.result = "Break")

C12_Witness ==
    /\ LastEnvelope
    /\ last.msg.method = "textDocument/didOpen"
    /\ last.msg.id = JNum(1)
    /\ last.env.fits
    /\ ~last.env.hok
    /\ last.invoked = <<"textDocument/didOpen">>
    /\ last.result = "Continue"
    /\ output = <<>>

\* A string of one or more decimal digits.
OnlyDigits(s) == s # <<>> /\ \A i \in DOMAIN s : s[i] \in DOMAIN Digits

\* The request was constructed from the probed id.
ProbeAccepted == probe.parsed.tag = "Some" /\ probe.req.ok

\* The construction stopped with InvalidRequest in parse_as_request.
ProbeInvalidRequest ==
    /\ probe.parsed.tag = "Some"
    /\ ~probe.req.ok
    /\ probe.req.err = "InvalidRequest"

\* C13 as stated: request construction accepts an id exactly when it is a
\* JSON number or a string of decimal digits only, a string "42" giving the
\* id 42; every other string (empty, signed, with another character) fails
\* request construction with InvalidRequest.
C13_AsStated ==
    probe.done =>
        /\ ProbeAccepted <=> (\/ probe.id.t \in {"num", "neg", "frac"}
                              \/ probe.id.t = "str" /\ OnlyDigits(probe.id.s))
        /\ probe.id = JStr(<<"4", "2">>) => probe.req.id = 42
        /\ (probe.id.t = "str" /\ ~OnlyDigits(probe.id.s)) => ProbeInvalidRequest

\* C14 as stated: an id that is neither a number the code takes nor a string
\* (a boolean, an object, an array, null, a negative or fractional number)
\* leaves parse_message with an envelope that retains the id, and the
\* failure comes from parse_as_request as InvalidRequest.
C14_AsStated ==
    (probe.done /\ probe.id.t \in {"bool", "object", "array", "null", "neg", "frac"})
    => (/\ probe.parsed.raw.id.some
        /\ ProbeInvalidRequest)

\* C15 as stated: for every message with a string method, parse_message
\* keeps params that are an object or an array, turns absent and null params
\* into null, and fails with InvalidRequest for a string, a number or a
\* boolean as params.
C15_AsStated ==
    (/\ last.read = "msg"
     /\ last.msg.text = "object"
     /\ last.msg.method \notin {"absent", "nonstring"})
    => (/\ last.msg.params \in Structured
             => (last.parsed.tag = "Some" /\ last.parsed.raw.params = last.msg.params)
        /\ last.msg.params \in {"absent", "null"}
             => (last.parsed.tag = "Some" /\ last.parsed.raw.params = "null")
        /\ last.msg.params \in {"string", "number", "bool"}
             => (last.parsed.tag = "Err" /\ last.parsed.err = "InvalidRequest"))

\* The first message of a run is an initialize request with id 1.
C16_FirstIsInitialize ==
    /\ last.read = "msg"
    /\ nread = 1
    /\ last.msg.text = "object"
    /\ last.msg.method = "initialize"
    /\ last.msg.id = JNum(1)

C17_ShutdownRequest ==
    /\ last.read = "msg"
    /\ ~last.before
    /\ last.msg = Msg("object", "shutdown", JNum(2), "absent")

\* C17 as stated: the shutdown request with id 2 is answered with exactly one
\* response, a success response with id 2 whose result is the empty object
\* {}; the lifecycle flag becomes true and handle_message returns Continue.
C17_AsStated ==
    C17_ShutdownRequest
    => (/\ last.out = <<[kind |-> "success", id |-> IdNum(2), err |-> "none",
                         result |-> [shape |-> "object", capabilities |-> {}]]>>
        /\ shut_down
        /\ last.result = "Continue")

\* C17 as amended: the shutdown request with id 2 is answered with exactly
\* one response, a success response with id 2 whose result is JSON null (the
\* serialization of the unit struct Ack); the lifecycle flag becomes true
\* and handle_message returns Continue.
C17_ShutdownScenario ==
    C17_ShutdownRequest
    => (/\ last.out = <<[kind |-> "success", id |-> IdNum(2), err |-> "none",
                         result |-> [shape |-> "null", capabilities |-> {}]]>>
        /\ last.invoked = <<"shutdown">>
        /\ shut_down
        /\ flag_writes = 1
        /\ last.result = "Continue"
        /\ pc = "Running")

C17_Witness ==
    /\ C17_ShutdownRequest
    /\ nread = 1
    /\ shut_down
    /\ output = <<Success(2, "Ack")>>
    /\ pc = "Running"

\* C18: run calls handle_message again only after an iteration that returned
\* Continue: every step of the service is taken from a state whose latest
\* iteration, if any, returned Continue, so after the first Break no message
\* is read, no handler is run and nothing is written.
C18_StopsAtBreak ==
    [][/\ last.result \in {"none", "Continue"}
       /\ pc = "Running"
       /\ nread' = nread + 1
       /\ last'.result = "Break" => pc' = "Stopped"]_vars

C18_Witness ==
    /\ pc = "Stopped"
    /\ last.result = "Break"
    /\ nread = 1
    /\ nread < MaxMsgs

\* C19: an iteration that returns Break writes exactly one response, a
\* failure response, and it is the last output of the run; an iteration that
\* returns Continue writes no failure response; so a failure response is
\* only ever the last output of a stopped loop.
C19_BreakEmitsOneFailure ==
    /\ last.result = "Break"
         => (/\ Len(last.out) = 1
             /\ last.out[1].kind = "failure"
             /\ last.out[1].err \in {"ParseError", "InvalidRequest"}
             /\ Len(output) >= 1
             /\ output[Len(output)] = last.out[1]
             /\ pc = "Stopped")
    /\ last.result = "Continue"
         => \A i \in DOMAIN last.out : last.out[i].kind # "failure"
    /\ \A i \in DOMAIN output :
          output[i].kind = "failure" => (i = Len(output) /\ last.result = "Break")

C19_Witness ==
    /\ pc = "Stopped"
    /\ last.result = "Break"
    /\ Len(output) = 2
    /\ output[1].kind = "success"
    /\ output[2].kind = "failure"

Reverse(s) == [i \in 1..Len(s) |-> s[Len(s) + 1 - i]]

\* The arms of dispatch_message taken over the tables ns and rs.
DispatchOver(ns, rs, rm, env, st) ==
    RequestArmsIn(rs, 1, rm, env, NotificationArmsIn(ns, 1, rm, env, st))

\* No method name is registered twice, and none in both roles.
C20_NamesUnique ==
    /\ NotificationMethods \cap RequestMethods = {}
    /\ Cardinality(NotificationMethods) = Len(NotificationActions)
    /\ Cardinality(RequestMethods) = Len(RequestActions)

\* The dispatch of the latest envelope gives the same state whatever the
\* order of the entries of the two tables.
C20_OrderIndependent ==
    LET p == parse_message(last.msg)
    IN  (last.read = "msg" /\ p.tag = "Some")
          => LET d == dispatch_message(p.raw, last.env, St0(last.before))
             IN  /\ Len(d.invoked) <= 1
                 /\ d = DispatchOver(Reverse(NotificationActions),
                                     Reverse(RequestActions),
                                     p.raw, last.env, St0(last.before))
                 /\ d = DispatchOver(NotificationActions,
                                     Reverse(RequestActions),
                                     p.raw, last.env, St0(last.before))
                 /\ d = DispatchOver(Reverse(NotificationActions),
                                     RequestActions,
                                     p.raw, last.env, St0(last.before))

\* C20: every method name of the dispatch table has exactly one role and
\* one entry, every iteration invokes at most one handler, and the outcome
\* of the dispatch does not depend on the order of the table entries.
C20_OneHandlerPerEnvelope ==
    /\ C20_NamesUnique
    /\ Len(last.invoked) <= 1
    /\ C20_OrderIndependent

C20_Witness ==
    /\ last.read = "msg"
    /\ last.msg.method = RequestActions[Len(RequestActions)].method
    /\ last.invoked = <<RequestActions[Len(RequestActions)].method>>
    /\ last.result = "Continue"
    /\ Len(last.out) = 1

\* C21: the loop handles one message at a time.  Every step of the loop
\* reads exactly one message and ends with everything the framework wrote
\* for it in the output, after all that was written for the messages before
\* it; the handlers run for it come after the handlers of the messages
\* before it; and a success response written in the step answers the
\* request read in the step.  So responses appear in the order of their
\* requests.
C21_OneAtATime ==
    [][/\ pc = "Running"
       /\ nread' = nread + 1
       /\ output' = output \o last'.out
       /\ invoked' = invoked \o last'.invoked
       /\ \A i \in DOMAIN last'.out :
             last'.out[i].kind = "success"
               => (/\ last'.read = "msg"
                   /\ last'.parsed.tag = "Some"
                   /\ last'.out[i].id =
                        IdNum(parsed_numeric_id(last'.parsed.raw.id)))]_vars

\* Two requests, the first with id 2 and the second with id 1, answered in
\* the order of their arrival.
C21_Witness ==
    /\ nread = 2
    /\ Len(output) = 2
    /\ output[1].kind = "success" /\ output[1].id = IdNum(2)
    /\ output[2].kind = "success" /\ output[2].id = IdNum(1)
    /\ last.msg.id = JNum(1)
    /\ last.out = <<output[2]>>

\* The latest iteration ran the initialize handler, and with it
\* get_root_path on the root the InitializeParams name.
LastInitialize ==
    /\ last.read = "msg"
    /\ last.invoked = <<InitializeRequest.method>>

\* C22 as stated: get_root_path returns the path of root_uri whenever
\* root_uri is present, also when root_path is present and differs, and
\* returns root_path only when root_uri is absent.
C22_AsStated ==
    LastInitialize
      => (/\ last.env.root.uri # "none"
               => (get_root_path(last.env.root) = "uri" /\ last.result # "Panic")
          /\ get_root_path(last.env.root) = "path" => last.env.root.uri = "none")

\* C23: parse_as_notification for an action whose Params are NoParams
\* succeeds for every RawMessage and yields the notification with params
\* NoParams: the result is the same for every params value, every id and
\* every method string, equal to the METHOD of the action or not.
C23_NoParamsNotification ==
    (probe.done /\ probe.action.ptype = "NoParams")
      => (/\ probe.res = [ok |-> TRUE, err |-> "none"]
          /\ \A rm \in ProbeRaws :
                parse_as_notification(probe.action, rm, probe.env) = probe.res)

\* The case of test_parse_as_notification: the Initialized action and a
\* RawMessage with the method "initialize", no id and null params.
C23_Witness ==
    /\ probe.done
    /\ probe.action = Action(ActionsMethod.Initialized, "external", "NoParams")
    /\ probe.raw = RawMessage(InitializeRequest.method, NoId, "null")
    /\ probe.res.ok

\* C24: every step of the loop whose message parse_message turns into an
\* envelope with the method exit runs the exit handler and ends the
\* process, whatever the lifecycle flag, the id and the params: the step is
\* not dropped by the gate, writes nothing, gives neither Continue nor
\* Break; and no step is taken once the process has exited.
C24_ExitTerminates ==
    [][/\ pc = "Running"
       /\ (/\ last'.read = "msg"
           /\ last'.parsed.tag = "Some"
           /\ last'.parsed.raw.method = ExitNotification.method)
          => (/\ last'.result = "Exit"
              /\ pc' = "Exited"
              /\ last'.invoked = <<ExitNotification.method>>
              /\ last'.out = <<>>
              /\ exit_code' = IF shut_down THEN 0 ELSE 1)]_vars

\* An exit message with an id and object params, read in shutdown mode.
C24_Witness ==
    /\ pc = "Exited"
    /\ last.before
    /\ last.msg.method = ExitNotification.method
    /\ last.msg.id = JNum(1)
    /\ last.msg.params = "object"
    /\ exit_code = 0

\* The latest iteration read, with the flag false, a shutdown message whose
\* id is missing or is no number and no string of digits, and whose params
\* are absent, null, an object or an array.
C25_ShutdownWithoutId ==
    /\ last.read = "msg"
    /\ ~last.before
    /\ last.msg.text = "object"
    /\ last.msg.method = ShutdownRequest.method
    /\ last.msg.params \in {"absent", "null"} \cup Structured
    /\ last.msg.id.t # "num"
    /\ last.msg.id.t = "str" => ~OnlyDigits(last.msg.id.s)

\* The lifecycle flag is unchanged by an iteration that returns Break and
\* by an iteration that does not run the shutdown handler.
C25_FlagFrame ==
    /\ last.result = "Break" => shut_down = last.before
    /\ ShutdownRequest.method \notin Range(last.invoked) => shut_down = last.before

\* C25 as stated: the lifecycle flag is unchanged by every iteration that
\* returns Break and by every iteration that does not run the shutdown
\* handler; a shutdown message with a missing or non-coercible id leaves
\* the flag false, is answered with one InvalidRequest failure response and
\* the iteration returns Break.
C25_AsStated ==
    /\ C25_FlagFrame
    /\ C25_ShutdownWithoutId
         => (/\ ~shut_down
             /\ Len(last.out) = 1
             /\ last.out[1].kind = "failure"
             /\ last.out[1].err = "InvalidRequest"
             /\ last.result = "Break")

\* The typed construction of the table entry for the method of rm succeeds.
Constructs(rm, env) ==
    \/ \E i \in DOMAIN NotificationActions :
          /\ NotificationActions[i].method = rm.method
          /\ parse_as_notification(NotificationActions[i], rm, env).ok
    \/ \E i \in DOMAIN RequestActions :
          /\ RequestActions[i].method = rm.method
          /\ parse_as_request(RequestActions[i], rm, env).ok

\* C26: dispatch does not depend on whether initialize has been handled.
\* While the lifecycle flag is false, an iteration gives what
\* handle_message gives for the same message in a fresh service, whatever
\* was handled before; a message for a registered method whose typed
\* construction succeeds runs the handler of the method, and so does an
\* initialize request that follows an initialize request.
C26_NoInitializedState ==
    /\ (last.read = "msg" /\ ~last.before)
         => LET o == handle_message(FALSE, last.msg, last.env)
            IN  /\ last.result = o.result
                /\ last.out = o.st.out
                /\ last.invoked = o.st.invoked
                /\ last.err = o.st.err
    /\ (LastEnvelope /\ ~last.before /\ Constructs(last.parsed.raw, last.env))
         => last.invoked = <<last.msg.method>>

\* Two initialize requests in a row, both handled and both answered.
C26_Witness ==
    /\ nread = 2
    /\ invoked = <<InitializeRequest.method, InitializeRequest.method>>
    /\ Len(output) = 2
    /\ output[2].kind = "success"
    /\ last.result = "Continue"

====
